---- MODULE Spec2Model ----
(***************************************************************************)
(* bee2 core/der: Distinguished Encoding Rules, TLV records.               *)
(*                                                                         *)
(* An octet is a number 0..255.  A buffer is a sequence of octets; the C   *)
(* pointer der + k is the buffer with its first k octets dropped.  A tag   *)
(* word (u32) is the record [hi, lo]: lo is bits 0-7 (the first octet of   *)
(* the tag), hi is bits 8-31 (the 24-bit number field of a long tag), so   *)
(* the word is hi * 256 + lo and every u32 is exactly one such record.     *)
(* size_t is SizeBits wide; SIZE_MAX is the format-error sentinel.         *)
(***************************************************************************)
EXTENDS Integers, Sequences, FiniteSets, TLC

\* width of size_t in bits
SizeBits == 16

SIZE_MAX == 2^SizeBits - 1

\* size_t addition wraps modulo 2^SizeBits
SizeAdd(a, b) == (a + b) % (SIZE_MAX + 1)

\* the 24-bit number field of the tag word
TagNumLimit == 2^24

Shift(buf, k) == SubSeq(buf, k + 1, Len(buf))

(***************************************************************************)
(* Tag word: packing rules of the implementation restriction.              *)
(***************************************************************************)
IsLongTag(tag) == tag.lo % 32 = 31

TagIsValid(tag) ==
    IF IsLongTag(tag) THEN tag.hi >= 31 ELSE tag.hi = 0

(***************************************************************************)
(* Tag codec, encoding side.                                               *)
(***************************************************************************)
RECURSIVE Digits(_, _)
Digits(n, base) == IF n = 0 THEN 0 ELSE 1 + Digits(n \div base, base)

RECURSIVE BigEndian(_, _)
BigEndian(n, base) ==
    IF n < base THEN <<n>> ELSE BigEndian(n \div base, base) \o <<n % base>>

\* number of octets of the tag field, SIZE_MAX for a badly packed word
derLenT(tag) ==
    IF ~TagIsValid(tag) THEN SIZE_MAX
    ELSE IF IsLongTag(tag) THEN 1 + Digits(tag.hi, 128)
    ELSE 1

\* the continuation flag set on the last octet as well
derEncodeTFlagLast(tag) ==
    IF IsLongTag(tag)
    THEN <<tag.lo>> \o [i \in 1..Len(BigEndian(tag.hi, 128)) |->
                            BigEndian(tag.hi, 128)[i] + 128]
    ELSE <<tag.lo>>

\* the octets of the tag field: (t_{r-1} | 128), ..., (t_1 | 128), t_0
\* after the first octet of a long tag
derEncodeT(tag) ==
    IF IsLongTag(tag)
    THEN LET t == BigEndian(tag.hi, 128)
         IN  <<tag.lo>> \o [i \in 1..Len(t) |->
                               IF i < Len(t) THEN t[i] + 128 ELSE t[i]]
    ELSE <<tag.lo>>

(***************************************************************************)
(* Length codec, encoding side.                                            *)
(***************************************************************************)
derLenL(len) == IF len < 128 THEN 1 ELSE 1 + Digits(len, 256)

\* the long form used from 127 on instead of from 128 on
derEncodeLLongAt127(len) ==
    IF len < 127 THEN <<len>>
    ELSE <<128 + Len(BigEndian(len, 256))>> \o BigEndian(len, 256)

\* short explicit form for L < 128, else (r | 128), l_{r-1}, ..., l_0
derEncodeL(len) ==
    IF len < 128 THEN <<len>>
    ELSE <<128 + Len(BigEndian(len, 256))>> \o BigEndian(len, 256)

(***************************************************************************)
(* Tag codec, decoding side.  The result is [n, tag]: n is the number of   *)
(* octets consumed, SIZE_MAX on a format error.                            *)
(***************************************************************************)
NoTag == [hi |-> 0, lo |-> 0]
TagError == [n |-> SIZE_MAX, tag |-> NoTag]

RECURSIVE TagNum(_, _, _, _, _)
TagNum(der, count, pos, acc, lead) ==
    IF pos > count THEN TagError
    ELSE LET o == der[pos]
             t == acc * 128 + (o % 128)
         IN  IF lead /\ o = 128 THEN TagError
             ELSE IF t >= TagNumLimit THEN TagError
             ELSE IF o >= 128 THEN TagNum(der, count, pos + 1, t, FALSE)
             ELSE IF t < 31 THEN TagError
             ELSE [n |-> pos, tag |-> [hi |-> t, lo |-> der[1]]]

\* a leading zero digit (first continuation octet 0x80) let through
derDecodeTPadded(der, count) ==
    IF count < 1 THEN TagError
    ELSE IF der[1] % 32 < 31 THEN [n |-> 1, tag |-> [hi |-> 0, lo |-> der[1]]]
    ELSE TagNum(der, count, 2, 0, FALSE)

derDecodeT(der, count) ==
    IF count < 1 THEN TagError
    ELSE IF der[1] % 32 < 31 THEN [n |-> 1, tag |-> [hi |-> 0, lo |-> der[1]]]
    ELSE TagNum(der, count, 2, 0, TRUE)

(***************************************************************************)
(* Length codec, decoding side.  The result is [n, len].                   *)
(***************************************************************************)
LenError == [n |-> SIZE_MAX, len |-> 0]

RECURSIVE LenNum(_, _, _, _)
LenNum(der, pos, last, acc) ==
    LET l == acc * 256 + der[pos]
    IN  IF l > SIZE_MAX THEN LenError
        ELSE IF pos < last THEN LenNum(der, pos + 1, last, l)
        ELSE IF l < 128 THEN LenError
        ELSE [n |-> last, len |-> l]

derDecodeL(der, count) ==
    IF count < 1 THEN LenError
    ELSE IF der[1] < 128 THEN [n |-> 1, len |-> der[1]]
    ELSE IF der[1] = 128 \/ der[1] = 255 THEN LenError
    ELSE IF count < 1 + (der[1] - 128) THEN LenError
    ELSE IF der[2] = 0 THEN LenError
    ELSE LenNum(der, 2, 1 + (der[1] - 128), 0)

(***************************************************************************)
(* derEncode.  wr: der != 0.  The result is [ret, der]: the returned size  *)
(* and the contents of the destination buffer after the call.              *)
(***************************************************************************)
\* the size counted without the length field
derEncodeNoLenOctets(wr, tag, value, len, der) ==
    LET t_count == derLenT(tag)
        code == derEncodeT(tag) \o derEncodeL(len) \o SubSeq(value, 1, len)
    IN  IF t_count = SIZE_MAX THEN [ret |-> SIZE_MAX, der |-> der]
        ELSE [ret |-> SizeAdd(t_count, len),
              der |-> IF wr THEN code \o Shift(der, Len(code)) ELSE der]

derEncode(wr, tag, value, len, der) ==
    LET t_count == derLenT(tag)
        l_count == derLenL(len)
        code == derEncodeT(tag) \o derEncodeL(len) \o SubSeq(value, 1, len)
    IN  IF t_count = SIZE_MAX THEN [ret |-> SIZE_MAX, der |-> der]
        ELSE [ret |-> SizeAdd(SizeAdd(t_count, l_count), len),
              der |-> IF wr THEN code \o Shift(der, Len(code)) ELSE der]

(***************************************************************************)
(* derSize: the exact length of the code, count being an upper estimate.   *)
(***************************************************************************)
\* the estimate returned in place of the exact length
derSizeReturnsBound(der, count) ==
    LET T == derDecodeT(der, count)
        L == derDecodeL(Shift(der, T.n), count - T.n)
    IN  IF T.n = SIZE_MAX THEN SIZE_MAX
        ELSE IF L.n = SIZE_MAX THEN SIZE_MAX
        ELSE IF L.len > count - T.n - L.n THEN SIZE_MAX
        ELSE count

derSize(der, count) ==
    LET T == derDecodeT(der, count)
        L == derDecodeL(Shift(der, T.n), count - T.n)
    IN  IF T.n = SIZE_MAX THEN SIZE_MAX
        ELSE IF L.n = SIZE_MAX THEN SIZE_MAX
        ELSE IF L.len > count - T.n - L.n THEN SIZE_MAX
        ELSE T.n + L.n + L.len

(***************************************************************************)
(* derIsValid: T and L are encoded by the rules, the tag fits u32, the     *)
(* length fits size_t, and count is the length of the code.                *)
(***************************************************************************)
\* trailing octets after the record let through
derIsValidPrefix(der, count) ==
    LET T == derDecodeT(der, count)
        L == derDecodeL(Shift(der, T.n), count - T.n)
    IN  /\ T.n # SIZE_MAX
        /\ L.n # SIZE_MAX
        /\ T.n + L.n + L.len <= count

derIsValid(der, count) ==
    LET T == derDecodeT(der, count)
        L == derDecodeL(Shift(der, T.n), count - T.n)
    IN  /\ T.n # SIZE_MAX
        /\ L.n # SIZE_MAX
        /\ T.n + L.n + L.len = count

\* only the first octet of the tag compared
derIsValid2FirstOctet(der, count, tag) ==
    /\ derIsValid(der, count)
    /\ derDecodeT(der, count).tag.lo = tag.lo

derIsValid2(der, count, tag) ==
    /\ derIsValid(der, count)
    /\ derDecodeT(der, count).tag = tag

(***************************************************************************)
(* derDecode, derDecode2.  wtag, wvalue: tag != 0, value != 0.  slot, buf, *)
(* ptr: what the output locations hold before the call.  The result holds  *)
(* the returned size and what the output locations hold after the call.    *)
(* A pointer into der is the offset of the octet it addresses.             *)
(***************************************************************************)
\* the tag stored as soon as it is decoded, before the code is validated
derDecodeEarlyTag(wtag, wvalue, der, count, slot, buf) ==
    LET T == derDecodeT(der, count)
        L == derDecodeL(Shift(der, T.n), count - T.n)
    IN  IF ~derIsValid(der, count)
        THEN [ret |-> SIZE_MAX,
              tag |-> IF wtag /\ T.n # SIZE_MAX THEN T.tag ELSE slot,
              value |-> buf]
        ELSE [ret |-> L.len,
              tag |-> IF wtag THEN T.tag ELSE slot,
              value |-> IF wvalue
                        THEN SubSeq(der, T.n + L.n + 1, count) \o Shift(buf, L.len)
                        ELSE buf]

derDecode(wtag, wvalue, der, count, slot, buf) ==
    LET T == derDecodeT(der, count)
        L == derDecodeL(Shift(der, T.n), count - T.n)
    IN  IF ~derIsValid(der, count)
        THEN [ret |-> SIZE_MAX, tag |-> slot, value |-> buf]
        ELSE [ret |-> L.len,
              tag |-> IF wtag THEN T.tag ELSE slot,
              value |-> IF wvalue
                        THEN SubSeq(der, T.n + L.n + 1, count) \o Shift(buf, L.len)
                        ELSE buf]

derDecode2(wtag, wvalue, der, count, slot, ptr) ==
    LET T == derDecodeT(der, count)
        L == derDecodeL(Shift(der, T.n), count - T.n)
    IN  IF ~derIsValid(der, count)
        THEN [ret |-> SIZE_MAX, tag |-> slot, value |-> ptr]
        ELSE [ret |-> L.len,
              tag |-> IF wtag THEN T.tag ELSE slot,
              value |-> IF wvalue THEN T.n + L.n ELSE ptr]

(***************************************************************************)
(* The caller: one call on fresh memory, or derEncode into a buffer and    *)
(* then one call on the code just written.                                 *)
(***************************************************************************)
\* longest header enumerated octet by octet
MaxHdr == 3

\* bounds 0..MaxCut are tried on every written code
MaxCut == 6

Fill(n, seed) == [i \in 1..n |-> (i * 7 + seed) % 256]

RECURSIVE SeqsUpTo(_, _)
SeqsUpTo(S, n) ==
    IF n = 0 THEN {<<>>}
    ELSE LET shorter == SeqsUpTo(S, n - 1)
         IN  shorter \cup {Append(q, o) : q \in shorter, o \in S}

\* tag words, well and badly packed
TagWords ==
    {[hi |-> h, lo |-> l] :
        h \in {0, 1, 30, 31, 127, 128, 16383, 16384, TagNumLimit - 1},
        l \in {0, 30, 31, 63, 193, 255}}

\* values to encode
Values == {Fill(n, 3) : n \in {0, 1, 127, 128, 256}} \cup {Fill(2, 200)}

\* lengths for derEncode(0, tag, 0, len)
QueryLens ==
    {0, 127, 128, 255, 256} \cup {SIZE_MAX - k : k \in 0..8}

\* octets left in the destination beyond the code
Spare == {<<>>, <<0, 129>>}

HdrOctets == {0, 1, 31, 127, 128, 129, 255}

\* headers beyond MaxHdr octets and lengths at the edges, with the number
\* of octets that follow
LongHdrs ==
    { <<<<0, 127>>, 127>>, <<<<0, 129, 127>>, 127>>, <<<<0, 129, 129>>, 129>>,
      <<<<0, 129, 255>>, 255>>, <<<<0, 130, 0, 128>>, 128>>,
      <<<<0, 130, 1, 0>>, 256>>, <<<<0, 130, 1, 0>>, 255>>,
      <<<<0, 130, 255, 255>>, 1>>, <<<<0, 131, 1, 0, 0>>, 1>>,
      <<<<0, 132, 1, 0, 0, 0>>, 1>>,
      <<<<31, 31, 129, 128>>, 128>>, <<<<63, 129, 0, 0>>, 0>>,
      <<<<31, 128, 31, 0>>, 0>>, <<<<31, 128, 129, 0, 0>>, 0>>,
      <<<<255, 255, 127, 1>>, 1>>, <<<<31, 129, 128, 0, 0>>, 0>>,
      <<<<31, 135, 255, 255, 127, 0>>, 0>>, <<<<31, 136, 128, 128, 0, 0>>, 0>>,
      <<<<31, 255, 255, 255, 127, 0>>, 0>>, <<<<31, 136, 128, 128, 31, 0>>, 0>>,
      <<<<31, 135, 255, 255, 127, 130, 1, 0>>, 256>> }

Buffers ==
    {h \o Fill(n, 5) : h \in SeqsUpTo(HdrOctets, MaxHdr), n \in {0, 1, 128}}
    \cup {x[1] \o Fill(x[2], 5) : x \in LongHdrs}

\* tag words handed to derIsValid2 on those buffers
FilterTags ==
    {[hi |-> h, lo |-> l] : h \in {0, 31}, l \in {0, 31, 255}}
    \cup {[hi |-> 1, lo |-> 0], [hi |-> 1, lo |-> 31]}

\* what the output locations hold before any call
InitTag == [hi |-> 11259375, lo |-> 205]
InitValue == Fill(256, 91)
NullPtr == 0 - 1
NoCall == 0 - 1

VARIABLES
    pc,         \* "start", "encoded" (a code was written to der), "done"
    op,         \* the last function called
    tag,        \* derEncode: tag
    value,      \* derEncode: value
    len,        \* derEncode: len
    wr,         \* derEncode: der != 0
    n,          \* what derEncode returned when it wrote der, else NoCall
    der,        \* the buffer der
    count,      \* count of the last validating or decoding call
    ftag,       \* derIsValid2: tag
    wtag,       \* derDecode, derDecode2: tag != 0
    wvalue,     \* derDecode, derDecode2: value != 0
    tagSlot,    \* *tag
    valueBuf,   \* the buffer value of derDecode
    valuePtr,   \* *value of derDecode2
    ret         \* the value returned by the last call

vars == <<pc, op, tag, value, len, wr, n, der, count, ftag, wtag, wvalue,
          tagSlot, valueBuf, valuePtr, ret>>

encArgs == <<tag, value, len, wr, n>>
outputs == <<tagSlot, valueBuf, valuePtr>>

Init ==
    /\ pc = "start"
    /\ op = "none"
    /\ tag = NoTag
    /\ value = <<>>
    /\ len = 0
    /\ wr = FALSE
    /\ n = NoCall
    /\ der = <<>>
    /\ count = 0
    /\ ftag = NoTag
    /\ wtag = FALSE
    /\ wvalue = FALSE
    /\ tagSlot = InitTag
    /\ valueBuf = InitValue
    /\ valuePtr = NullPtr
    /\ ret = 0

\* derEncode(0, tag, value, len) and derEncode(0, tag, 0, len)
EncodeQuery ==
    /\ pc = "start"
    /\ \E t \in TagWords, l \in QueryLens \cup {Len(v) : v \in Values} :
          /\ tag' = t
          /\ len' = l
          /\ \E v \in {<<>>} \cup {x \in Values : Len(x) = l} : value' = v
          /\ ret' = derEncode(FALSE, t, <<>>, l, der).ret
          /\ der' = derEncode(FALSE, t, <<>>, l, der).der
    /\ wr' = FALSE
    /\ op' = "derEncode"
    /\ pc' = "done"
    /\ UNCHANGED <<n, count, ftag, wtag, wvalue, outputs>>

\* derEncode(der, tag, value, len) into a buffer of at least the size asked
\* for beforehand (of a few octets when that call failed)
EncodeWrite ==
    /\ pc = "start"
    /\ \E t \in TagWords, v \in Values, s \in Spare :
          LET size == derEncode(FALSE, t, v, Len(v), <<>>).ret
              dest == IF size = SIZE_MAX THEN Fill(4, 77) \o s
                      ELSE Fill(size, 77) \o s
              r == derEncode(TRUE, t, v, Len(v), dest)
          IN  /\ tag' = t
              /\ value' = v
              /\ len' = Len(v)
              /\ ret' = r.ret
              /\ der' = r.der
              /\ n' = IF r.ret = SIZE_MAX THEN NoCall ELSE r.ret
              /\ pc' = IF r.ret = SIZE_MAX THEN "done" ELSE "encoded"
    /\ wr' = TRUE
    /\ op' = "derEncode"
    /\ UNCHANGED <<count, ftag, wtag, wvalue, outputs>>

\* the buffers and counts a validating or decoding call is made on
Inputs ==
    IF pc = "start"
    THEN UNION {{[der |-> b, count |-> c] : c \in {Len(b), Len(b) - 1} \cap Nat} :
                   b \in Buffers}
    ELSE {[der |-> der, count |-> c] :
             c \in ((0..MaxCut) \cup {n - 1, n, n + 1, Len(der)}) \cap (0..Len(der))}

\* the counts a decoding call is made with on a written code
DecodeInputs ==
    {x \in Inputs : pc = "encoded" => x.count \in {n - 1, n, Len(der)}}

FilterInputs ==
    IF pc = "start" THEN FilterTags
    ELSE {tag, [hi |-> tag.hi, lo |-> (tag.lo + 64) % 256],
          [hi |-> (tag.hi + 1) % TagNumLimit, lo |-> tag.lo]}

Size ==
    /\ pc \in {"start", "encoded"}
    /\ \E x \in Inputs :
          /\ der' = x.der
          /\ count' = x.count
          /\ ret' = derSize(x.der, x.count)
    /\ op' = "derSize"
    /\ pc' = "done"
    /\ UNCHANGED <<encArgs, ftag, wtag, wvalue, outputs>>

IsValid ==
    /\ pc \in {"start", "encoded"}
    /\ \E x \in Inputs :
          /\ der' = x.der
          /\ count' = x.count
          /\ ret' = derIsValid(x.der, x.count)
    /\ op' = "derIsValid"
    /\ pc' = "done"
    /\ UNCHANGED <<encArgs, ftag, wtag, wvalue, outputs>>

IsValid2 ==
    /\ pc \in {"start", "encoded"}
    /\ \E x \in DecodeInputs, t \in FilterInputs :
          /\ der' = x.der
          /\ count' = x.count
          /\ ftag' = t
          /\ ret' = derIsValid2(x.der, x.count, t)
    /\ op' = "derIsValid2"
    /\ pc' = "done"
    /\ UNCHANGED <<encArgs, wtag, wvalue, outputs>>

Decode ==
    /\ pc \in {"start", "encoded"}
    /\ \E x \in DecodeInputs, wt \in BOOLEAN, wv \in BOOLEAN :
          LET r == derDecode(wt, wv, x.der, x.count, tagSlot, valueBuf)
          IN  /\ der' = x.der
              /\ count' = x.count
              /\ wtag' = wt
              /\ wvalue' = wv
              /\ ret' = r.ret
              /\ tagSlot' = r.tag
              /\ valueBuf' = r.value
    /\ op' = "derDecode"
    /\ pc' = "done"
    /\ UNCHANGED <<encArgs, ftag, valuePtr>>

Decode2 ==
    /\ pc \in {"start", "encoded"}
    /\ \E x \in DecodeInputs, wt \in BOOLEAN, wv \in BOOLEAN :
          LET r == derDecode2(wt, wv, x.der, x.count, tagSlot, valuePtr)
          IN  /\ der' = x.der
              /\ count' = x.count
              /\ wtag' = wt
              /\ wvalue' = wv
              /\ ret' = r.ret
              /\ tagSlot' = r.tag
              /\ valuePtr' = r.value
    /\ op' = "derDecode2"
    /\ pc' = "done"
    /\ UNCHANGED <<encArgs, ftag, valueBuf>>

Next ==
    \/ EncodeQuery
    \/ EncodeWrite
    \/ Size
    \/ IsValid
    \/ IsValid2
    \/ Decode
    \/ Decode2

Spec == Init /\ [][Next]_vars

(***************************************************************************)
(* Properties.                                                             *)
(***************************************************************************)
Written == n # NoCall
OnBuffer == op \in {"derSize", "derIsValid", "derIsValid2", "derDecode", "derDecode2"}
Decoding == op \in {"derDecode", "derDecode2"}

\* the offsets of der at which the length codec is tried
Offsets == (0..MaxCut) \cap (0..(count - 1))

\* C1: round trip.  A value encoded by derEncode under a well packed tag
\* into a buffer of the returned size n and decoded by derDecode(der, n)
\* comes back: derDecode succeeds and returns len, the tag stored is the
\* tag word encoded and the octets copied are the octets of the value.
C1_RoundTrip ==
    /\ (op = "derEncode" /\ wr /\ TagIsValid(tag)) => (Written /\ ret = n)
    /\ (op = "derDecode" /\ Written /\ count = n) =>
          /\ ret # SIZE_MAX
          /\ ret = len
          /\ wtag => tagSlot = tag
          /\ wvalue => SubSeq(valueBuf, 1, len) = value

C1_Witness ==
    /\ op = "derDecode" /\ Written /\ count = n
    /\ wtag /\ wvalue
    /\ tag.hi = 16384 /\ len = 128
    /\ ret = 128 /\ tagSlot = tag /\ SubSeq(valueBuf, 1, len) = value

\* C2: canonical length field.  Whatever octets the length decoder accepts
\* as a length L are the octets the length encoder emits for L (one octet L
\* below 128, else 0x80|r and the r-octet minimal big-endian form), the
\* octets the encoder emits are accepted as L, and a first octet 0x80 or
\* 0xFF, a zero leading value octet and a long form below 128 are errors.
C2_LengthCanonical ==
    /\ OnBuffer =>
          \A k \in Offsets :
             LET b == Shift(der, k)
                 L == derDecodeL(b, count - k)
             IN  /\ L.n # SIZE_MAX =>
                       /\ L.len <= SIZE_MAX
                       /\ SubSeq(b, 1, L.n) = derEncodeL(L.len)
                 /\ b[1] \in {128, 255} => L.n = SIZE_MAX
                 /\ (b[1] > 128 /\ count - k >= 2 /\ b[2] = 0) => L.n = SIZE_MAX
                 /\ (b[1] = 129 /\ count - k >= 2 /\ b[2] < 128) => L.n = SIZE_MAX
    /\ op = "derEncode" =>
          derDecodeL(derEncodeL(len), Len(derEncodeL(len))) =
             [n |-> Len(derEncodeL(len)), len |-> len]
    /\ (op = "derEncode" /\ Written) =>
          LET t == Len(derEncodeT(tag))
          IN  derDecodeL(Shift(der, t), n - t) =
                 [n |-> Len(derEncodeL(len)), len |-> len]

C2_Witness ==
    /\ op = "derSize" /\ ~Written /\ ret # SIZE_MAX
    /\ der[2] = 130
    /\ derDecodeL(Shift(der, 1), count - 1) = [n |-> 3, len |-> 256]

\* C3: the sentinel.  derEncode, derSize, derDecode and derDecode2 return
\* SIZE_MAX only on a format error: derEncode only for a badly packed tag
\* word, the others only when the buffer holds no valid code.
C3_SentinelOnlyOnError ==
    /\ (op = "derEncode" /\ ret = SIZE_MAX) => ~TagIsValid(tag)
    /\ (op = "derSize" /\ ret = SIZE_MAX) =>
          \A c \in 0..count : ~derIsValid(der, c)
    /\ (Decoding /\ ret = SIZE_MAX) => ~derIsValid(der, count)

C5_SizeValid ==
    /\ op = "derIsValid" =>
          (ret <=> (derSize(der, count) # SIZE_MAX /\ derSize(der, count) = count))
    /\ op = "derSize" =>
          ((ret # SIZE_MAX /\ ret = count) <=> derIsValid(der, count))

C5_Witness ==
    /\ op = "derSize" /\ ~Written
    /\ ret # SIZE_MAX /\ ret < count
    /\ ~derIsValid(der, count)

\* C6: truncation.  For a record of size S, derSize returns S under every
\* bound >= S whatever follows the record and fails under every bound < S,
\* and derIsValid is false on every shorter count.
C6_Truncation ==
    /\ (op = "derSize" /\ Written) =>
          ret = IF count >= n THEN n ELSE SIZE_MAX
    /\ (op = "derIsValid" /\ Written) => (ret <=> count = n)
    /\ (op = "derIsValid" /\ ret) =>
          \A c \in 0..(count - 1) :
             /\ derSize(der, c) = SIZE_MAX
             /\ ~derIsValid(der, c)

C6_Witness ==
    /\ op = "derSize" /\ Written
    /\ n > 128 /\ count = n - 1 /\ Len(der) > n
    /\ ret = SIZE_MAX

\* C7: derEncode returns SIZE_MAX exactly for a badly packed tag word, with
\* and without a destination; the size returned is the number of octets
\* written; nothing is written on the error path.
C7_EncodeTagCheck ==
    op = "derEncode" =>
        /\ ret = SIZE_MAX <=> ~TagIsValid(tag)
        /\ ret = derEncode(FALSE, tag, <<>>, len, <<>>).ret
        /\ (wr /\ ret # SIZE_MAX) =>
              /\ ret = Len(derEncodeT(tag) \o derEncodeL(len) \o value)
              /\ SubSeq(der, 1, ret) = derEncodeT(tag) \o derEncodeL(len) \o value
              /\ Shift(der, ret) \in Spare
        /\ (wr /\ ret = SIZE_MAX) => \E s \in Spare : der = Fill(4, 77) \o s

\* C8: tag filter.  derIsValid2(der, count, tag) is true exactly when
\* derIsValid(der, count) is true and the tag derDecode stores equals tag
\* in all 32 bits; it is false for every badly packed tag word.
C8_TagFilter ==
    op = "derIsValid2" =>
        /\ ret <=> /\ derIsValid(der, count)
                   /\ derDecode(TRUE, FALSE, der, count, InitTag, InitValue).tag = ftag
        /\ ~TagIsValid(ftag) => ~ret

C8_Witness ==
    /\ op = "derIsValid2" /\ ~Written
    /\ derIsValid(der, count)
    /\ ftag.lo = der[1] /\ ftag.hi # 0 /\ ~IsLongTag(ftag)
    /\ ~ret

\* C9: long tags on decoding.  A tag whose first octet has the escape
\* marker is accepted only as the minimal base-128 form of a number from
\* 31 to 2^24 - 1: not with a first continuation octet 0x80, not below 31,
\* not beyond 24 bits; the octets accepted are the octets the tag encoder
\* emits for the decoded word, and the octets the encoder emits are
\* accepted as that word.
C9_LongTagMinimal ==
    /\ (OnBuffer /\ count >= 1 /\ der[1] % 32 = 31) =>
          LET T == derDecodeT(der, count)
          IN  /\ T.n # SIZE_MAX =>
                    /\ T.tag.hi >= 31 /\ T.tag.hi < TagNumLimit
                    /\ T.tag.lo = der[1]
                    /\ SubSeq(der, 1, T.n) = derEncodeT(T.tag)
              /\ (count >= 2 /\ der[2] = 128) => T.n = SIZE_MAX
    /\ (op = "derEncode" /\ Written) =>
          derDecodeT(der, n) = [n |-> Len(derEncodeT(tag)), tag |-> tag]

C9_Witness ==
    /\ op = "derIsValid" /\ ~Written
    /\ Len(der) >= 5 /\ der[1] = 31 /\ der[2] = 135
    /\ derDecodeT(der, count).tag = [hi |-> TagNumLimit - 1, lo |-> 31]
    /\ ret

\* C10: reverse round trip.  On a valid code the tag derDecode stores is
\* well packed, derDecode2 returns the same length and tag, its pointer is
\* der + (count - L) and addresses the octets derDecode copies, and
\* derEncode of that tag and value returns count and rebuilds der.
C10_ReverseRoundTrip ==
    /\ (op = "derDecode" /\ derIsValid(der, count)) =>
          LET d2 == derDecode2(TRUE, TRUE, der, count, InitTag, NullPtr)
              d1 == derDecode(TRUE, TRUE, der, count, InitTag, InitValue)
              e == derEncode(TRUE, d1.tag, SubSeq(d1.value, 1, d1.ret), d1.ret,
                             Fill(count, 77))
          IN  /\ ret = d1.ret /\ ret = d2.ret
              /\ wtag => (tagSlot = d2.tag /\ TagIsValid(tagSlot))
              /\ wvalue => SubSeq(valueBuf, 1, ret) =
                              SubSeq(der, d2.value + 1, d2.value + ret)
              /\ d1.tag = d2.tag
              /\ d2.value = count - ret
              /\ e.ret = count
              /\ e.der = SubSeq(der, 1, count)
    /\ (op = "derDecode2" /\ derIsValid(der, count)) =>
          /\ ret # SIZE_MAX
          /\ wvalue => valuePtr = count - ret
          /\ wtag => TagIsValid(tagSlot)

C10_Witness ==
    /\ op = "derDecode" /\ ~Written /\ wtag /\ wvalue
    /\ derIsValid(der, count)
    /\ IsLongTag(tagSlot) /\ ret = 128
    /\ derEncode(TRUE, tagSlot, SubSeq(valueBuf, 1, ret), ret, Fill(count, 77)).der = der

====
